---- MODULE Spec2Model ----
(***************************************************************************)
(* libretranslate-rs (src/lib.rs): the Language tables, TranslateError,    *)
(* and Translator::translate, one blocking HTTP POST whose response is     *)
(* read as text, parsed as JSON and searched for "translatedText".         *)
(*                                                                         *)
(* Three specifications share the module:                                  *)
(*   SpecLang  the three Language tables (code, pretty, Display) applied   *)
(*             to every pair of variants;                                  *)
(*   Spec      one thread calling translate again and again, with every    *)
(*             language pair, every input of Inputs and every reply of     *)
(*             Replies;                                                    *)
(*   SpecConc  NumCallers threads calling translate concurrently.          *)
(***************************************************************************)
EXTENDS Naturals, Sequences, FiniteSets, TLC

(***************************************************************************)
(* Bounds                                                                  *)
(***************************************************************************)
\* Threads that call translate concurrently in SpecConc.
NumCallers == 2

Callers == 1..NumCallers

(***************************************************************************)
(* Language                                                                *)
(***************************************************************************)
\* pub enum Language, in declaration order.
LanguageSeq ==
    << "English", "Arabic", "Chinese", "French", "German",
       "Italian", "Portuguese", "Russain", "Spanish" >>

Language == { LanguageSeq[i] : i \in 1..Len(LanguageSeq) }

\* A slip that fills the Russain row with the Spanish code.
codeDuplicated(l) ==
    CASE l = "English"    -> "en"
      [] l = "Arabic"     -> "ar"
      [] l = "Chinese"    -> "zh"
      [] l = "French"     -> "fr"
      [] l = "German"     -> "de"
      [] l = "Italian"    -> "it"
      [] l = "Portuguese" -> "pt"
      [] l = "Russain"    -> "es"
      [] l = "Spanish"    -> "es"

\* Language::code: the match has no default arm, and neither has the CASE.
code(l) ==
    CASE l = "English"    -> "en"
      [] l = "Arabic"     -> "ar"
      [] l = "Chinese"    -> "zh"
      [] l = "French"     -> "fr"
      [] l = "German"     -> "de"
      [] l = "Italian"    -> "it"
      [] l = "Portuguese" -> "pt"
      [] l = "Russain"    -> "rs"
      [] l = "Spanish"    -> "es"

\* Language::pretty.
pretty(l) ==
    CASE l = "English"    -> "English"
      [] l = "Arabic"     -> "Arabic"
      [] l = "Chinese"    -> "Chinese"
      [] l = "French"     -> "French"
      [] l = "German"     -> "German"
      [] l = "Italian"    -> "Italian"
      [] l = "Portuguese" -> "Portuguese"
      [] l = "Russain"    -> "Russain"
      [] l = "Spanish"    -> "Spanish"

\* The Display table with the ISO code of Russian in the Russain row.
fmtIso(l, f) ==
    CASE l = "English"    -> f \o "en"
      [] l = "Arabic"     -> f \o "ar"
      [] l = "Chinese"    -> f \o "zh"
      [] l = "French"     -> f \o "fr"
      [] l = "German"     -> f \o "de"
      [] l = "Italian"    -> f \o "it"
      [] l = "Portuguese" -> f \o "pt"
      [] l = "Russain"    -> f \o "ru"
      [] l = "Spanish"    -> f \o "es"

\* impl Display for Language: fmt writes the variant's text to the
\* formatter f, here the text written so far.
fmt(l, f) ==
    CASE l = "English"    -> f \o "en"
      [] l = "Arabic"     -> f \o "ar"
      [] l = "Chinese"    -> f \o "zh"
      [] l = "French"     -> f \o "fr"
      [] l = "German"     -> f \o "de"
      [] l = "Italian"    -> f \o "it"
      [] l = "Portuguese" -> f \o "pt"
      [] l = "Russain"    -> f \o "rs"
      [] l = "Spanish"    -> f \o "es"

\* ToString::to_string, which Display provides: fmt into an empty buffer.
to_string(l) == fmt(l, "")

Letters ==
    { "a", "b", "c", "d", "e", "f", "g", "h", "i", "j", "k", "l", "m",
      "n", "o", "p", "q", "r", "s", "t", "u", "v", "w", "x", "y", "z" }

TwoLetterStrings == { a \o b : a \in Letters, b \in Letters }

(***************************************************************************)
(* Result, TranslateError, Translator                                      *)
(***************************************************************************)
Ok(v) == [tag |-> "Ok", value |-> v]

Err(e) == [tag |-> "Err", error |-> e]

\* Neither a value nor an error: no call has returned.
None == [tag |-> "None"]

\* What an unwrap of a missing value does to the thread.
Panic == [tag |-> "Panic"]

\* enum TranslateError { HttpError(String), ParseError(String) }
HttpError(msg) == [kind |-> "HttpError", msg |-> msg]

ParseError(msg) == [kind |-> "ParseError", msg |-> msg]

(***************************************************************************)
(* serde_json: Value, from_str, Index<&str>.  A body text is the sequence  *)
(* of its lexical tokens, each a pair <<kind, text>>.                      *)
(***************************************************************************)
Tok(kind, text) == << kind, text >>

Kind(t) == t[1]

Text(t) == t[2]

LBrace == Tok("p", "{")

RBrace == Tok("p", "}")

LBracket == Tok("p", "[")

RBracket == Tok("p", "]")

Colon == Tok("p", ":")

Comma == Tok("p", ",")

Str(s) == Tok("str", s)

Num(n) == Tok("num", n)

Lit(w) == Tok("lit", w)

\* enum Value
Null == [type |-> "Null"]

Bool(b) == [type |-> "Bool", b |-> b]

Number(n) == [type |-> "Number", n |-> n]

String(s) == [type |-> "String", s |-> s]

Array(items) == [type |-> "Array", items |-> items]

Object(map) == [type |-> "Object", map |-> map]

\* Map::insert: a later member replaces an earlier one with the same key.
Insert(map, k, v) == (k :> v) @@ map

Parsed(v, n) == [ok |-> TRUE, value |-> v, next |-> n, code |-> "", at |-> 0]

Failed(what, at) ==
    [ok |-> FALSE, value |-> Null, next |-> 0, code |-> what, at |-> at]

RECURSIVE ParseValue(_, _), ParseElements(_, _, _), ParseMembers(_, _, _)

\* One JSON value starting at token i.
ParseValue(toks, i) ==
    IF i > Len(toks) THEN Failed("EOF while parsing a value", i)
    ELSE LET t == toks[i] IN
         CASE Kind(t) = "str" -> Parsed(String(Text(t)), i + 1)
           [] Kind(t) = "num" -> Parsed(Number(Text(t)), i + 1)
           [] t = Lit("null") -> Parsed(Null, i + 1)
           [] t = Lit("true") -> Parsed(Bool(TRUE), i + 1)
           [] t = Lit("false") -> Parsed(Bool(FALSE), i + 1)
           [] t = LBracket ->
                IF i + 1 <= Len(toks) /\ toks[i + 1] = RBracket
                THEN Parsed(Array(<< >>), i + 2)
                ELSE ParseElements(toks, i + 1, << >>)
           [] t = LBrace ->
                IF i + 1 <= Len(toks) /\ toks[i + 1] = RBrace
                THEN Parsed(Object(<< >>), i + 2)
                ELSE ParseMembers(toks, i + 1, << >>)
           [] OTHER -> Failed("expected value", i)

\* The elements of an array, from the element at token i on.
ParseElements(toks, i, items) ==
    LET v == ParseValue(toks, i) IN
    IF ~v.ok THEN v
    ELSE IF v.next > Len(toks) THEN Failed("EOF while parsing a list", v.next)
    ELSE IF toks[v.next] = Comma
         THEN ParseElements(toks, v.next + 1, Append(items, v.value))
    ELSE IF toks[v.next] = RBracket
         THEN Parsed(Array(Append(items, v.value)), v.next + 1)
    ELSE Failed("expected comma or closing bracket", v.next)

\* The members of an object, from the key at token i on.
ParseMembers(toks, i, map) ==
    IF i > Len(toks) THEN Failed("EOF while parsing an object", i)
    ELSE IF Kind(toks[i]) # "str" THEN Failed("key must be a string", i)
    ELSE IF i + 1 > Len(toks) THEN Failed("EOF while parsing an object", i + 1)
    ELSE IF toks[i + 1] # Colon THEN Failed("expected colon", i + 1)
    ELSE LET v == ParseValue(toks, i + 2) IN
         IF ~v.ok THEN v
         ELSE IF v.next > Len(toks)
              THEN Failed("EOF while parsing an object", v.next)
         ELSE IF toks[v.next] = Comma
              THEN ParseMembers(toks, v.next + 1, Insert(map, Text(toks[i]), v.value))
         ELSE IF toks[v.next] = RBrace
              THEN Parsed(Object(Insert(map, Text(toks[i]), v.value)), v.next + 1)
         ELSE Failed("expected comma or closing brace", v.next)

\* serde_json::from_str: one value, and nothing after it.
from_str(string) ==
    LET r == ParseValue(string, 1) IN
    IF ~r.ok THEN Err([code |-> r.code, at |-> r.at])
    ELSE IF r.next <= Len(string)
         THEN Err([code |-> "trailing characters", at |-> r.next])
    ELSE Ok(r.value)

\* Display of serde_json::Error: the message and the place.
JsonErrorToString(e) == e.code \o " at token " \o ToString(e.at)

\* A lookup that ignores the case of the first letter of the key.
IndexAnyCase(v, key) ==
    IF v.type # "Object" THEN Null
    ELSE IF key \in DOMAIN v.map THEN v.map[key]
    ELSE IF key = "translatedText" /\ "TranslatedText" \in DOMAIN v.map
         THEN v.map["TranslatedText"]
    ELSE Null

\* value[key]: the member of an object, Null for a missing key and for
\* every value that is not an object.
Index(v, key) ==
    IF v.type = "Object" /\ key \in DOMAIN v.map THEN v.map[key] ELSE Null

(***************************************************************************)
(* ureq: what send_json returns, and Response::into_string                 *)
(***************************************************************************)
\* The endpoint of ureq::post.
Url == "https://libretranslate.com/translate"

\* ureq::Error: a status that is not 2xx, or a failure of the transport.
Failures ==
    { [kind |-> "Status", detail |-> "500"],
      [kind |-> "Status", detail |-> "429"],
      [kind |-> "Dns", detail |-> "failed to lookup address"],
      [kind |-> "ConnectionFailed", detail |-> "connection refused"],
      [kind |-> "Io", detail |-> "timed out reading response"] }

\* Display of ureq::Error.
ErrorToString(e) ==
    IF e.kind = "Status"
    THEN Url \o ": status code " \o e.detail
    ELSE e.kind \o ": " \o e.detail

NoIoError == [kind |-> "", message |-> ""]

\* A 2xx response whose body arrives whole.
Response(text) ==
    [status |-> 200, read |-> "ok", text |-> text, error |-> NoIoError]

\* A 2xx response whose body cannot be read to its end as text; text is
\* what had arrived.
Unreadable(text, kind, message) ==
    [status |-> 200, read |-> "err", text |-> text,
     error |-> [kind |-> kind, message |-> message]]

\* Response::into_string.
into_string(data) ==
    IF data.read = "ok" THEN Ok(data.text) ELSE Err(data.error)

\* Display of std::io::Error.
IoErrorToString(e) == e.message

Key == Str("translatedText")

\* Bodies whose top-level translatedText is a string, with that string.
StringBodies ==
    { [text |-> << LBrace, Key, Colon, Str("Hello world!"), RBrace >>,
       translatedText |-> "Hello world!"],
      [text |-> << LBrace, Key, Colon, Str(""), RBrace >>,
       translatedText |-> ""],
      [text |-> << LBrace, Key, Colon, Str("Ola Mundo!"), Comma,
                   Str("detectedLanguage"), Colon,
                   LBrace, Str("confidence"), Colon, Num("90"), Comma,
                           Str("language"), Colon, Str("pt"), RBrace,
                   RBrace >>,
       translatedText |-> "Ola Mundo!"],
      [text |-> << LBrace, Str("alternatives"), Colon,
                   LBracket, Str("Hi"), Comma, Str("Hey"), RBracket, Comma,
                   Key, Colon, Str("Hello"), RBrace >>,
       translatedText |-> "Hello"] }

\* Valid JSON with no top-level member translatedText.
MissingBodies ==
    { << LBrace, RBrace >>,
      << LBrace, Str("error"), Colon, Str("Invalid request"), RBrace >>,
      << LBrace, Str("TranslatedText"), Colon, Str("Hello"), RBrace >>,
      << LBrace, Str("data"), Colon,
         LBrace, Key, Colon, Str("Hello"), RBrace, RBrace >>,
      << LBracket, RBracket >>,
      << LBracket, LBrace, Key, Colon, Str("Hello"), RBrace, RBracket >>,
      << Key >>,
      << Lit("null") >>,
      << Num("7") >>,
      << Lit("true") >> }

\* Valid JSON whose top-level translatedText is not a string.
WrongTypeBodies ==
    { << LBrace, Key, Colon, Lit("null"), RBrace >>,
      << LBrace, Key, Colon, Num("7"), RBrace >>,
      << LBrace, Key, Colon, Lit("false"), RBrace >>,
      << LBrace, Key, Colon, LBracket, Str("Hello"), RBracket, RBrace >>,
      << LBrace, Key, Colon, LBracket, RBracket, RBrace >>,
      << LBrace, Key, Colon,
         LBrace, Str("text"), Colon, Str("Hello"), RBrace, RBrace >> }

\* Texts that are not JSON.
MalformedBodies ==
    { << >>,
      << LBrace >>,
      << LBrace, Key, Colon >>,
      << Tok("word", "<html>") >>,
      << LBrace, Key, Colon, Str("Hello"), RBrace, RBrace >>,
      << LBrace, Key, Str("Hello"), RBrace >>,
      << LBrace, Num("1"), Colon, Str("Hello"), RBrace >>,
      << LBracket, Num("1"), Comma, RBracket >>,
      << LBrace, Key, Colon, Str("Hello"), Comma, RBrace >> }

\* Bodies that end before or beyond what into_string reads.
UnreadableBodies ==
    { Unreadable(<< LBrace, Key, Colon >>, "UnexpectedEof", "unexpected end of file"),
      Unreadable(<< LBrace, Key, Colon, Str("Hello"), RBrace >>, "Other",
                 "response too big for into_string") }

Texts ==
    { b.text : b \in StringBodies } \cup MissingBodies \cup WrongTypeBodies
        \cup MalformedBodies

\* Everything send_json may return.
Replies ==
    { Err(f) : f \in Failures } \cup { Ok(Response(t)) : t \in Texts }
        \cup { Ok(d) : d \in UnreadableBodies }

\* The texts a caller may pass; the empty text is one of them.
Inputs == { "", "Ola Mundo!" }

(***************************************************************************)
(* Translator::translate                                                   *)
(***************************************************************************)
\* A payload with the two language fields exchanged.
jsonSwapped(source, target, input) ==
    [q |-> input, source |-> code(target), target |-> code(source)]

\* ureq::json!({ "q": ..., "source": ..., "target": ... })
json(source, target, input) ==
    [q |-> input, source |-> code(source), target |-> code(target)]

\* A second POST of the payload after the first.
RequestsRetried(source, target, input) ==
    << [method |-> "POST", url |-> Url, body |-> json(source, target, input)],
       [method |-> "POST", url |-> Url, body |-> json(source, target, input)] >>

\* The requests one invocation issues: ureq::post(..).send_json(..), once.
Requests(source, target, input) ==
    << [method |-> "POST", url |-> Url, body |-> json(source, target, input)] >>

\* The failure of send_json reported as a failure to parse.
OnFailureAsParse(error) ==
    [result |-> Err(ParseError(ErrorToString(error))), steps |-> << >>]

\* Err(error) => return Err(TranslateError::HttpError(error.to_string()))
OnFailure(error) ==
    [result |-> Err(HttpError(ErrorToString(error))), steps |-> << >>]

\* A body that cannot be read reported as a failure of the transport.
ReadBodyAsHttp(data) ==
    LET r == into_string(data) IN
    IF r.tag = "Ok" THEN r ELSE Err(HttpError(IoErrorToString(r.error)))

\* let string: String = match data.into_string() { .. }
ReadBody(data) ==
    LET r == into_string(data) IN
    IF r.tag = "Ok" THEN r ELSE Err(ParseError(IoErrorToString(r.error)))

\* let parsed_json: Value = match serde_json::from_str(&string) { .. }
ParseBody(string) ==
    LET r == from_str(string) IN
    IF r.tag = "Ok" THEN r ELSE Err(ParseError(JsonErrorToString(r.error)))

\* The member taken with as_str().unwrap().
ExtractUnwrap(parsed_json) ==
    LET v == Index(parsed_json, "translatedText") IN
    IF v.type = "String" THEN Ok(v.s) ELSE Panic

\* A missing or mistyped member read as the empty text.
ExtractOrDefault(parsed_json) ==
    LET v == Index(parsed_json, "translatedText") IN
    IF v.type = "String" THEN Ok(v.s) ELSE Ok("")

\* let output = match &parsed_json["translatedText"] { .. }
Extract(parsed_json) ==
    LET v == Index(parsed_json, "translatedText") IN
    IF v.type = "String"
    THEN Ok(v.s)
    ELSE Err(ParseError("Unable to find translatedText in parsed JSON"))

\* A result that echoes the input as its output.
BuildEcho(source, target, input, output) ==
    [source |-> source, target |-> target, input |-> input, output |-> input]

\* Self { source, target, input, output }, input and output copied with
\* to_string, which leaves a text as it is.
Build(source, target, input, output) ==
    [source |-> source, target |-> target, input |-> input, output |-> output]

\* The match on what send_json returned; reply is that return value.  steps
\* lists the decoding calls made, in order.
translate(source, target, input, reply) ==
    IF reply.tag = "Err" THEN OnFailure(reply.error)
    ELSE LET string == ReadBody(reply.value) IN
         IF string.tag # "Ok"
         THEN [result |-> string, steps |-> << "into_string" >>]
         ELSE LET parsed_json == ParseBody(string.value) IN
              IF parsed_json.tag # "Ok"
              THEN [result |-> parsed_json,
                    steps |-> << "into_string", "from_str" >>]
              ELSE LET output == Extract(parsed_json.value) IN
                   IF output.tag # "Ok"
                   THEN [result |-> output,
                         steps |-> << "into_string", "from_str", "index" >>]
                   ELSE [result |-> Ok(Build(source, target, input, output.value)),
                         steps |-> << "into_string", "from_str", "index" >>]

(***************************************************************************)
(* State                                                                   *)
(***************************************************************************)
VARIABLES
    pc,      \* per thread: "idle", "sent" (blocked in send_json), "done"
    args,    \* per thread: the arguments of its current call of translate
    net,     \* the requests handed to the HTTP client and not yet answered
    posts,   \* per thread: the POSTs its current call has issued
    served,  \* per connection: what the HTTP client returned on it last
    result,  \* per thread: what its current call returned
    steps,   \* per thread: the decoding calls its current call made
    probe,   \* the two Language values the table lookups are applied to
    out      \* the results of the lookups on probe, << >> before the lookup

vars == << pc, args, net, posts, served, result, steps, probe, out >>

callVars == << pc, args, net, posts, served, result, steps >>

NoOut == [code |-> << >>, pretty |-> << >>, display |-> << >>]

InitCalls ==
    /\ pc = [c \in Callers |-> "idle"]
    /\ args = [c \in Callers |-> None]
    /\ net = {}
    /\ posts = [c \in Callers |-> 0]
    /\ served = [c \in Callers |-> None]
    /\ result = [c \in Callers |-> None]
    /\ steps = [c \in Callers |-> << >>]

Init ==
    /\ InitCalls
    /\ probe = [x |-> "English", y |-> "English"]
    /\ out = NoOut

InitLang ==
    /\ InitCalls
    /\ probe \in [x : Language, y : Language]
    /\ out = NoOut

(***************************************************************************)
(* The calls of translate                                                  *)
(***************************************************************************)
\* A thread that takes whatever answer the client has ready.
AnyRequest(c, m) == m.conn \in Callers

\* The Result matched by a call is the return value of its own send_json.
OwnRequest(c, m) == m.conn = c

\* Thread c calls translate(source, target, input): the payload is built and
\* posted, and the thread blocks in send_json.
Call(c, languages, inputs) ==
    /\ pc[c] \in { "idle", "done" }
    /\ \E source \in languages, target \in languages, input \in inputs :
         LET requests == Requests(source, target, input) IN
         /\ args' = [args EXCEPT ![c] =
                        [source |-> source, target |-> target, input |-> input]]
         /\ net' = net \cup { [conn |-> c, seq |-> i, request |-> requests[i]] :
                                i \in 1..Len(requests) }
         /\ posts' = [posts EXCEPT ![c] = Len(requests)]
    /\ pc' = [pc EXCEPT ![c] = "sent"]
    /\ served' = [served EXCEPT ![c] = None]
    /\ result' = [result EXCEPT ![c] = None]
    /\ steps' = [steps EXCEPT ![c] = << >>]
    /\ UNCHANGED << probe, out >>

\* send_json returns reply to thread c, and translate runs to its return.
Return(c, replies) ==
    /\ pc[c] = "sent"
    /\ \E m \in net, reply \in replies :
         /\ OwnRequest(c, m)
         /\ LET r == translate(args[c].source, args[c].target, args[c].input, reply) IN
            /\ result' = [result EXCEPT ![c] = r.result]
            /\ steps' = [steps EXCEPT ![c] = r.steps]
         /\ served' = [served EXCEPT ![m.conn] = reply]
         /\ net' = net \ { m }
    /\ pc' = [pc EXCEPT ![c] = "done"]
    /\ UNCHANGED << args, posts, probe, out >>

Next ==
    \/ Call(1, Language, Inputs)
    \/ Return(1, Replies)

Spec == Init /\ [][Next]_vars

\* The languages and replies of the concurrent calls.
ConcLanguages == { "Portuguese", "English" }

ConcReplies ==
    { Err([kind |-> "ConnectionFailed", detail |-> "connection refused"]),
      Ok(Response(<< LBrace, Key, Colon, Str("Hello world!"), RBrace >>)),
      Ok(Response(<< LBrace, Key, Colon, Str(""), RBrace >>)),
      Ok(Response(<< LBrace, RBrace >>)),
      Ok(Response(<< LBrace >>)) }

NextConc ==
    \E c \in Callers :
        \/ Call(c, ConcLanguages, Inputs)
        \/ Return(c, ConcReplies)

SpecConc == Init /\ [][NextConc]_vars

(***************************************************************************)
(* The lookups of the Language tables                                      *)
(***************************************************************************)
CallCode ==
    /\ out' = [out EXCEPT !.code = << code(probe.x), code(probe.y) >>]
    /\ UNCHANGED << callVars, probe >>

CallPretty ==
    /\ out' = [out EXCEPT !.pretty = << pretty(probe.x), pretty(probe.y) >>]
    /\ UNCHANGED << callVars, probe >>

CallDisplay ==
    /\ out' = [out EXCEPT !.display = << to_string(probe.x), to_string(probe.y) >>]
    /\ UNCHANGED << callVars, probe >>

NextLang == CallCode \/ CallPretty \/ CallDisplay

SpecLang == InitLang /\ [][NextLang]_vars

(***************************************************************************)
(* Properties                                                              *)
(***************************************************************************)
Done(c) == pc[c] = "done"

\* The reply on c's connection is a 2xx response whose body was read whole.
Readable(c) == served[c].tag = "Ok" /\ served[c].value.read = "ok"

\* C1: every call of translate ends with exactly one outcome, a fully
\* populated Translator or one TranslateError of kind HttpError or
\* ParseError; before it ends there is no outcome, it never panics, and
\* whatever the client returns lets it end.
C1_ExactlyOneOutcome ==
    \A c \in Callers :
        /\ ~Done(c) => result[c] = None
        /\ pc[c] = "sent" => ENABLED Return(c, Replies)
        /\ Done(c) =>
             \/ /\ result[c].tag = "Ok"
                /\ DOMAIN result[c].value = { "source", "target", "input", "output" }
                /\ result[c].value.source \in Language
                /\ result[c].value.target \in Language
                /\ result[c].value.input \in Inputs
             \/ /\ result[c].tag = "Err"
                /\ DOMAIN result[c].error = { "kind", "msg" }
                /\ result[c].error.kind \in { "HttpError", "ParseError" }

C1_Witness ==
    \E c \in Callers :
        /\ Done(c)
        /\ Readable(c)
        /\ served[c].value.text \in WrongTypeBodies
        /\ result[c].tag = "Err"

\* C2: every call of translate issues exactly one POST: one when it has
\* sent, still one when it has returned, whatever it returned, and none of
\* its requests is in flight after it returned.
C2_ExactlyOnePost ==
    \A c \in Callers :
        /\ posts[c] = IF pc[c] = "idle" THEN 0 ELSE 1
        /\ Cardinality({ m \in net : m.conn = c }) = IF pc[c] = "sent" THEN 1 ELSE 0

C2_Witness ==
    \E c \in Callers :
        /\ Done(c)
        /\ served[c].tag = "Err"
        /\ posts[c] = 1
        /\ net = {}

\* C3: when send_json fails, translate returns HttpError with the failure's
\* description as its message, and decodes nothing.
C3_TransportFailure ==
    \A c \in Callers :
        Done(c) /\ served[c].tag = "Err" =>
            /\ result[c] = Err(HttpError(ErrorToString(served[c].error)))
            /\ steps[c] = << >>

C3_Witness ==
    \E c \in Callers :
        /\ Done(c)
        /\ served[c].tag = "Err"
        /\ served[c].error.kind = "Status"
        /\ result[c].error.kind = "HttpError"

\* The reply on c's connection is valid JSON without a top-level string
\* translatedText.
NoTranslatedText(c) ==
    /\ Readable(c)
    /\ served[c].value.text \in MissingBodies \cup WrongTypeBodies

\* C4 as stated: a JSON body whose top-level translatedText is missing or
\* not a string gives ParseError("translatedText missing or wrong type").
C4_MessageAsStated ==
    \A c \in Callers :
        Done(c) /\ NoTranslatedText(c) =>
            result[c] = Err(ParseError("translatedText missing or wrong type"))

\* C4, amended: a JSON body whose top-level translatedText is missing or
\* not a string gives ParseError("Unable to find translatedText in parsed
\* JSON").
C4_MissingOrWrongType ==
    \A c \in Callers :
        Done(c) /\ NoTranslatedText(c) =>
            result[c] = Err(ParseError("Unable to find translatedText in parsed JSON"))

C4_Witness ==
    \E c \in Callers :
        /\ Done(c)
        /\ Readable(c)
        /\ served[c].value.text = << LBrace, Key, Colon, Lit("null"), RBrace >>
        /\ result[c].error.kind = "ParseError"

\* C5: a 2xx response whose body cannot be read as text, or is not JSON,
\* gives ParseError; the reading is tried first, and a body that cannot be
\* read is never handed to the JSON parser.
C5_UndecodableBody ==
    \A c \in Callers :
        Done(c) /\ served[c].tag = "Ok" =>
            /\ served[c].value.read = "err" =>
                 /\ result[c].tag = "Err"
                 /\ result[c].error.kind = "ParseError"
                 /\ steps[c] = << "into_string" >>
            /\ Readable(c) /\ served[c].value.text \in MalformedBodies =>
                 /\ result[c].tag = "Err"
                 /\ result[c].error.kind = "ParseError"
                 /\ steps[c] = << "into_string", "from_str" >>

C5_Witness ==
    \E c \in Callers :
        /\ Done(c)
        /\ served[c].tag = "Ok"
        /\ served[c].value.read = "err"
        /\ served[c].value.text \in MalformedBodies
        /\ result[c].error.kind = "ParseError"

\* C6: a JSON body whose top-level translatedText is a string t gives the
\* Translator with the call's source, target and input and with output t,
\* and translate succeeds in no other case.
C6_Success ==
    \A c \in Callers :
        Done(c) =>
            /\ \A b \in StringBodies :
                 Readable(c) /\ served[c].value.text = b.text =>
                     result[c] = Ok([source |-> args[c].source,
                                     target |-> args[c].target,
                                     input |-> args[c].input,
                                     output |-> b.translatedText])
            /\ result[c].tag = "Ok" =>
                 /\ Readable(c)
                 /\ \E b \in StringBodies : served[c].value.text = b.text

C6_Witness ==
    \E c \in Callers :
        /\ Done(c)
        /\ args[c].input = ""
        /\ result[c].tag = "Ok"
        /\ result[c].value.output = ""

\* C7: the request of translate(source, target, input) is a POST to the one
\* endpoint whose body has exactly the members q = input, source =
\* code(source) and target = code(target).
C7_Request ==
    \A m \in net :
        /\ pc[m.conn] = "sent"
        /\ m.request.method = "POST"
        /\ m.request.url = "https://libretranslate.com/translate"
        /\ DOMAIN m.request.body = { "q", "source", "target" }
        /\ m.request.body.q = args[m.conn].input
        /\ m.request.body.source = code(args[m.conn].source)
        /\ m.request.body.target = code(args[m.conn].target)
        /\ m.request.body.source \in TwoLetterStrings
        /\ m.request.body.target \in TwoLetterStrings

C7_Witness ==
    \E m \in net :
        /\ args[m.conn].source = "Russain"
        /\ args[m.conn].target = "Chinese"
        /\ m.request.body.q = ""
        /\ m.request.body.source = "rs"
        /\ m.request.body.target = "zh"

\* C8: the enum has 9 variants; code gives each two letters and pretty gives
\* each a text that is not empty, and neither gives two variants the same
\* text.
C8_Tables ==
    /\ Cardinality(Language) = 9
    /\ out.code # << >> =>
         /\ out.code[1] \in TwoLetterStrings
         /\ out.code[2] \in TwoLetterStrings
         /\ probe.x # probe.y => out.code[1] # out.code[2]
    /\ out.pretty # << >> =>
         /\ Len(out.pretty[1]) > 0
         /\ Len(out.pretty[2]) > 0
         /\ probe.x # probe.y => out.pretty[1] # out.pretty[2]

C8_Witness ==
    /\ probe.x = "Russain"
    /\ probe.y = "Spanish"
    /\ out.code = << "rs", "es" >>
    /\ out.pretty # << >>

\* C9: to_string of a variant is the text code gives for it.
C9_DisplayIsCode ==
    out.code # << >> /\ out.display # << >> => out.display = out.code

C9_Witness ==
    /\ probe.x = "Russain"
    /\ probe.y = "Portuguese"
    /\ out.code # << >>
    /\ out.display = << "rs", "pt" >>

\* What a call that ran alone would return for the reply on c's connection.
Alone(c) ==
    translate(args[c].source, args[c].target, args[c].input, served[c]).result

C10_Own ==
    \A c \in Callers :
        Done(c) =>
            /\ served[c] \in ConcReplies
            /\ result[c] = Alone(c)
            /\ result[c].tag = "Ok" =>
                 /\ result[c].value.source = args[c].source
                 /\ result[c].value.target = args[c].target
                 /\ result[c].value.input = args[c].input
                 /\ \E b \in StringBodies :
                      /\ served[c].value.text = b.text
                      /\ result[c].value.output = b.translatedText

C10_Frame ==
    \A c, d \in Callers :
        c # d /\ pc'[d] # pc[d] =>
            /\ pc'[c] = pc[c]
            /\ args'[c] = args[c]
            /\ served'[c] = served[c]
            /\ result'[c] = result[c]
            /\ steps'[c] = steps[c]

\* C10: concurrent calls are independent: under every interleaving what a
\* call returns is what it would return alone for its own arguments and the
\* reply to its own request, and a step of one call changes nothing of
\* another.
C10_Independent == [] C10_Own /\ [][C10_Frame]_vars

C10_Witness ==
    /\ pc[1] = "done"
    /\ pc[2] = "sent"
    /\ args[1] # args[2]
    /\ result[1].tag = "Ok"
    /\ result[1].value.output = "Hello world!"

====
